---------------------------- MODULE Spec2Model ----------------------------
(***************************************************************************)
(* Model of lib/extractors/extract_blocks.py: the batch pipeline           *)
(*   raw pattern matches -> CodeBlocks -> DuplicateGroups ->               *)
(*   ConsolidationSuggestions -> metrics -> one JSON document on stdout.   *)
(*                                                                         *)
(* A Python dict is a record with a field `keys` (the keys it carries)     *)
(* and a field `ill` (the keys whose value has an unexpected type: None,   *)
(* a list, a string where an int is expected).  A match that is not a      *)
(* dict at all has isDict = FALSE.  Text is a sequence of one-character    *)
(* strings.  sha256 digests are kept symbolic (a tagged tuple of what is   *)
(* hashed), i.e. the hash and its hex prefixes are taken collision-free.   *)
(***************************************************************************)
EXTENDS Integers, Sequences, FiniteSets, TLC

VARIABLES pc, input, env, blocks, hash_groups, groups, suggestions,
          metrics, result, stdout, stderr, exit_code

vars == <<pc, input, env, blocks, hash_groups, groups, suggestions,
          metrics, result, stdout, stderr, exit_code>>

(***************************************************************************)
(* Bounds of the explored inputs.                                          *)
(***************************************************************************)
MaxBadMatches == 2

MaxMatches == 4

MaxLineMatches == 3

MaxLine == 2

MaxOcc == 11

(***************************************************************************)
(* Small helpers.                                                          *)
(***************************************************************************)
Range(s) == {s[k] : k \in 1..Len(s)}

RECURSIVE SumSeq(_)
SumSeq(s) == IF s = <<>> THEN 0 ELSE Head(s) + SumSeq(Tail(s))

Min(a, b) == IF a <= b THEN a ELSE b

SeqsUpTo(S, n) == UNION {[1..k -> S] : k \in 0..n}

Repeat(x, n) == [k \in 1..n |-> x]

(***************************************************************************)
(* extract_code_blocks, lines 30-91.                                       *)
(***************************************************************************)
RequiredKeys == {"file_path", "line_start", "rule_id"}

category_map ==
    [r \in {"object-manipulation", "array-map-filter", "string-manipulation",
            "type-checking", "validation", "express-route-handlers",
            "auth-checks", "error-responses", "request-validation",
            "prisma-operations", "query-builders", "connection-handling",
            "await-patterns", "promise-chains", "env-variables",
            "config-objects", "console-statements", "logger-patterns"} |->
       CASE r \in {"object-manipulation", "array-map-filter",
                   "string-manipulation", "type-checking"} -> "utility"
         [] r \in {"validation", "request-validation"} -> "validator"
         [] r = "express-route-handlers" -> "api_handler"
         [] r = "auth-checks" -> "auth_check"
         [] r = "error-responses" -> "error_handler"
         [] r \in {"prisma-operations", "query-builders",
                   "connection-handling"} -> "database_operation"
         [] r \in {"await-patterns", "promise-chains"} -> "async_pattern"
         [] r \in {"env-variables", "config-objects"} -> "config_access"
         [] OTHER -> "logger"]

\* category_map.get(rule_id, 'utility')
Category(rule_id) ==
    IF rule_id \in DOMAIN category_map THEN category_map[rule_id] ELSE "utility"

\* f"cb_{sha256(f'{file_path}:{line_start}').hexdigest()[:12]}"
BlockId(match) == <<"cb", match.file_path, match.line_start>>

\* match.get('line_end', match['line_start'])
LineEnd(match) ==
    IF "line_end" \in match.keys THEN match.line_end ELSE match.line_start

\* match.get('matched_text', '')
SourceCode(match) ==
    IF "matched_text" \in match.keys THEN match.matched_text ELSE <<>>

LineCountNoPlusOne(match) == LineEnd(match) - match.line_start

\* match.get('line_end', match['line_start']) - match['line_start'] + 1
LineCount(match) == LineEnd(match) - match.line_start + 1

MissingKeyWithLineEnd(match) ==
    ~(RequiredKeys \cup {"line_end"} \subseteq match.keys)

\* match['file_path'], match['line_start'] (line 39), match['rule_id']
\* (line 63): KeyError
MissingKey(match) == ~(RequiredKeys \subseteq match.keys)

\* TypeError raised by the function's own expressions: an unhashable
\* rule_id in category_map.get (line 63), a non-numeric operand of the
\* subtraction (line 80).
TypeErrorIn(match) ==
    \/ "rule_id" \in match.ill
    \/ "line_start" \in match.ill
    \/ "line_end" \in match.keys /\ "line_end" \in match.ill

\* repository_info['path'] (line 79): KeyError
MissingPath(repository_info) == ~repository_info.hasPath

\* The CodeBlock / SourceLocation constructors (lib/models/code_block.py):
\* typed, validated records; construction fails on a field of the wrong
\* type and on a line_count below 1.
CodeBlockRejects(match) ==
    \/ match.ill \cap match.keys # {}
    \/ LineCount(match) < 1

\* lines 67-81
MakeBlock(match, repository_info) ==
    [block_id |-> BlockId(match),
     pattern_id |-> match.rule_id,
     file_path |-> match.file_path,
     line_start |-> match.line_start,
     line_end |-> LineEnd(match),
     relative_path |-> match.file_path,
     source_code |-> SourceCode(match),
     language |-> "javascript",
     category |-> Category(match.rule_id),
     repository_path |-> repository_info.path,
     line_count |-> LineCount(match)]

\* Does the body of the try block (lines 38-83) raise for this dict?
TryRaises(match, repository_info) ==
    \/ MissingKey(match)
    \/ TypeErrorIn(match)
    \/ MissingPath(repository_info)
    \/ CodeBlockRejects(match)

\* The except clause (line 86) evaluates match.get('file_path', 'unknown'):
\* on a match that is no dict this raises AttributeError inside the
\* handler, which leaves extract_code_blocks.
HandlerRaises(match) == ~match.isDict

\* The diagnostic of line 86: the record's index and file path.
Warning(i, match) ==
    <<"warning", i,
      IF "file_path" \in match.keys THEN match.file_path ELSE "unknown">>

\* The loop of lines 36-89 from record k on; i = k - 1 is enumerate's index.
\* raised: an exception left the function (blocks are then never returned).
RECURSIVE ExtractFrom(_, _, _, _, _)
ExtractFrom(pattern_matches, repository_info, k, acc, err) ==
    IF k > Len(pattern_matches)
    THEN [raised |-> FALSE, blocks |-> acc, stderr |-> err]
    ELSE LET match == pattern_matches[k] IN
         IF ~match.isDict \/ TryRaises(match, repository_info)
         THEN IF HandlerRaises(match)
              THEN [raised |-> TRUE, blocks |-> <<>>, stderr |-> err]
              ELSE ExtractFrom(pattern_matches, repository_info, k + 1, acc,
                               Append(err, Warning(k - 1, match)))
         ELSE ExtractFrom(pattern_matches, repository_info, k + 1,
                          Append(acc, MakeBlock(match, repository_info)), err)

extract_code_blocks(pattern_matches, repository_info) ==
    ExtractFrom(pattern_matches, repository_info, 1, <<>>, <<>>)

(***************************************************************************)
(* CodeBlock.content_hash (lib/models/code_block.py): a digest of the      *)
(* normalized source text.  Normalization joins the whitespace-separated   *)
(* words of the text with single blanks.                                   *)
(***************************************************************************)
RECURSIVE Squeeze(_)
Squeeze(s) ==
    IF s = <<>> THEN <<>>
    ELSE IF Head(s) = " "
         THEN LET r == Squeeze(Tail(s)) IN
              IF r = <<>> \/ Head(r) = " " THEN r ELSE <<" ">> \o r
         ELSE <<Head(s)>> \o Squeeze(Tail(s))

Normalize(s) ==
    LET q == Squeeze(s) IN IF q # <<>> /\ Head(q) = " " THEN Tail(q) ELSE q

content_hash(block) == <<"sha256", Normalize(block.source_code)>>

\* DuplicateGroup.impact_score (lib/models/duplicate_group.py): a score of
\* the duplication volume; its formula is not part of this file.
impact_score(group) == group.total_lines * group.occurrence_count

(***************************************************************************)
(* group_duplicates, lines 94-126.                                         *)
(***************************************************************************)
BucketKeyByPattern(block) == block.pattern_id

\* h = block.content_hash (line 103)
BucketKey(block) == content_hash(block)

\* Lines 102-106: hash_groups is an insertion-ordered dict, kept as the
\* sequence of its items; a bucket lists its blocks by position in `blocks`.
RECURSIVE Bucketize(_, _, _)
Bucketize(bs, k, hg) ==
    IF k > Len(bs) THEN hg
    ELSE LET h == BucketKey(bs[k]) IN
         IF \E j \in 1..Len(hg) : hg[j].h = h
         THEN LET j == CHOOSE j \in 1..Len(hg) : hg[j].h = h IN
              Bucketize(bs, k + 1, [hg EXCEPT ![j].members = Append(@, k)])
         ELSE Bucketize(bs, k + 1, Append(hg, [h |-> h, members |-> <<k>>]))

EmitsSingletons(group_blocks) == Len(group_blocks) >= 1

\* if len(group_blocks) >= 2 (line 110)
EmitsGroup(group_blocks) == Len(group_blocks) >= 2

\* Lines 111-123.  similarity_score 1.0 is kept in hundredths (100);
\* list(set(...)) of line 121 is kept as the set.
MakeGroup(h, group_blocks) ==
    [group_id |-> <<"dg", h>>,
     pattern_id |-> group_blocks[1].pattern_id,
     member_block_ids |-> [k \in 1..Len(group_blocks) |-> group_blocks[k].block_id],
     similarity_score |-> 100,
     similarity_method |-> "exact_match",
     category |-> group_blocks[1].category,
     language |-> group_blocks[1].language,
     occurrence_count |-> Len(group_blocks),
     total_lines |-> SumSeq([k \in 1..Len(group_blocks) |-> group_blocks[k].line_count]),
     affected_files |-> {group_blocks[k].file_path : k \in 1..Len(group_blocks)},
     affected_repositories |-> <<group_blocks[1].repository_path>>]

BucketBlocks(bs, bucket) ==
    [k \in 1..Len(bucket.members) |-> bs[bucket.members[k]]]

\* Lines 109-124
RECURSIVE EmitGroups(_, _, _)
EmitGroups(bs, hg, k) ==
    IF k > Len(hg) THEN <<>>
    ELSE LET group_blocks == BucketBlocks(bs, hg[k]) IN
         (IF EmitsGroup(group_blocks)
          THEN <<MakeGroup(hg[k].h, group_blocks)>> ELSE <<>>)
         \o EmitGroups(bs, hg, k + 1)

group_duplicates(bs) == EmitGroups(bs, Bucketize(bs, 1, <<>>), 1)

(***************************************************************************)
(* generate_suggestions, lines 129-160.                                    *)
(***************************************************************************)
StrategyStrictThreshold(occurrence_count) ==
    IF occurrence_count < 3 THEN "local_util"
    ELSE IF occurrence_count < 10 THEN "shared_package"
    ELSE "mcp_server"

\* Lines 137-142
Strategy(occurrence_count) ==
    IF occurrence_count <= 3 THEN "local_util"
    ELSE IF occurrence_count <= 10 THEN "shared_package"
    ELSE "mcp_server"

AffectedFilesCountByMembers(group) == Len(group.member_block_ids)

\* len(group.affected_files) (line 153)
AffectedFilesCount(group) == Cardinality(group.affected_files)

\* Lines 144-156.  confidence 0.9 / 0.7 is kept in hundredths.
MakeSuggestion(group) ==
    [suggestion_id |-> <<"cs", group.group_id>>,
     duplicate_group_id |-> group.group_id,
     strategy |-> Strategy(group.occurrence_count),
     strategy_rationale |-> <<"Found", group.occurrence_count,
                              "occurrences in", Cardinality(group.affected_files),
                              "files">>,
     impact_score |-> Min(impact_score(group), 100),
     complexity |-> "simple",
     migration_risk |-> "low",
     breaking_changes |-> FALSE,
     affected_files_count |-> AffectedFilesCount(group),
     affected_repositories_count |-> Len(group.affected_repositories),
     confidence |-> IF group.similarity_score >= 95 THEN 90 ELSE 70]

generate_suggestions(gs) == [k \in 1..Len(gs) |-> MakeSuggestion(gs[k])]

(***************************************************************************)
(* The metrics of main, lines 187-199.                                     *)
(***************************************************************************)
LocReductionSwapped(group) ==
    group.total_lines \div group.occurrence_count - group.total_lines

\* g.total_lines - g.total_lines // g.occurrence_count (line 194)
LocReduction(group) ==
    group.total_lines - group.total_lines \div group.occurrence_count

IsExact(g) == g.similarity_method = "exact"

IsTrivial(s) == s.complexity = "trivial"

IsHighPriority(s) == s.impact_score >= 75

ComputeMetrics(bs, gs, ss) ==
    [total_code_blocks |-> Len(bs),
     total_duplicate_groups |-> Len(gs),
     exact_duplicates |-> Len(SelectSeq(gs, IsExact)),
     structural_duplicates |-> 0,
     semantic_duplicates |-> 0,
     total_duplicated_lines |-> SumSeq([k \in 1..Len(gs) |-> gs[k].total_lines]),
     potential_loc_reduction |-> SumSeq([k \in 1..Len(gs) |-> LocReduction(gs[k])]),
     duplication_percentage |-> 0,
     total_suggestions |-> Len(ss),
     quick_wins |-> Len(SelectSeq(ss, IsTrivial)),
     high_priority_suggestions |-> Len(SelectSeq(ss, IsHighPriority))]

NoMetrics == ComputeMetrics(<<>>, <<>>, <<>>)

(***************************************************************************)
(* The inputs explored: the document read from stdin.                      *)
(***************************************************************************)
AllKeys == RequiredKeys \cup {"line_end", "matched_text"}

Dict(keys, ill, rule_id, file_path, line_start, line_end, matched_text) ==
    [isDict |-> TRUE, keys |-> keys, ill |-> ill, rule_id |-> rule_id,
     file_path |-> file_path, line_start |-> line_start,
     line_end |-> line_end, matched_text |-> matched_text]

\* A match that is no dict (null, a number, a string, a list).
NotADict ==
    [isDict |-> FALSE, keys |-> {}, ill |-> {}, rule_id |-> "validation",
     file_path |-> "a.js", line_start |-> 1, line_end |-> 1,
     matched_text |-> <<"x">>]

\* Records with keys missing, values of the wrong type, an unmapped rule.
OddRecords ==
    {NotADict}
    \cup {Dict(ks \cup {"matched_text"}, {}, "validation", "a.js", 1, 1, <<"x">>) :
             ks \in SUBSET RequiredKeys}
    \cup {Dict(RequiredKeys, {}, "my-rule", "b.js", 2, 2, <<"y">>),
           Dict(RequiredKeys \cup {"line_end"}, {}, "auth-checks", "b.js", 2, 2, <<"y">>)}
    \cup {Dict(AllKeys, {f}, "validation", "a.js", 1, 1, <<"x">>) :
             f \in {"rule_id", "file_path", "line_start", "line_end"}}

TextRecord(file_path, matched_text) ==
    Dict(RequiredKeys \cup {"matched_text"}, {}, "validation", file_path, 1, 1,
         matched_text)

\* Well-formed records that differ in file and in text; some texts differ
\* in whitespace only.
TextRecords ==
    {TextRecord("a.js", <<"x">>),
     TextRecord("b.js", <<"x">>),
     TextRecord("a.js", <<" ", "x", " ">>),
     TextRecord("a.js", <<"x", " ", "y">>),
     TextRecord("b.js", <<"x", " ", " ", "y">>)}

\* Well-formed records that differ in their line range (line_end may be
\* absent, and may be smaller than line_start).
LineRecords ==
    {Dict(RequiredKeys \cup {"matched_text"}, {}, "validation", "a.js", 1, 1, <<"x">>)}
    \cup {Dict(AllKeys, {}, "validation", "a.js", ls, le, <<"x">>) :
             ls \in {1, MaxLine}, le \in 1..MaxLine}

RecordA == Dict(AllKeys, {}, "validation", "a.js", 1, 2, <<"x">>)

RecordB == Dict(AllKeys, {}, "auth-checks", "b.js", 3, 3, <<"y">>)

\* a copies of one record followed by b copies of another.
RepeatedMatches == {Repeat(RecordA, a) \o Repeat(RecordB, b) : a, b \in 0..MaxOcc}

Document(validJson, hasRepositoryInfo, hasPatternMatches, hasPath, pattern_matches) ==
    [validJson |-> validJson,
     hasRepositoryInfo |-> hasRepositoryInfo,
     hasPatternMatches |-> hasPatternMatches,
     repository_info |-> [hasPath |-> hasPath, path |-> "/repo"],
     pattern_matches |-> pattern_matches]

GoodDocument(pattern_matches) == Document(TRUE, TRUE, TRUE, TRUE, pattern_matches)

Inputs ==
    {GoodDocument(ms) : ms \in SeqsUpTo(OddRecords, MaxBadMatches)}
    \cup {Document(j, r, p, h, ms) :
             j, r, p, h \in BOOLEAN, ms \in SeqsUpTo({RecordA}, MaxBadMatches)}
    \cup {GoodDocument(ms) : ms \in SeqsUpTo(TextRecords, MaxMatches)}
    \cup {GoodDocument(ms) : ms \in SeqsUpTo(LineRecords, MaxLineMatches)}
    \cup {GoodDocument(ms) : ms \in RepeatedMatches}

(***************************************************************************)
(* main, lines 163-215, one action per stage.                              *)
(***************************************************************************)
Init ==
    /\ pc = "start"
    /\ input \in Inputs
    /\ env \in [serializable : BOOLEAN]
    /\ (~env.serializable => input.pattern_matches \in SeqsUpTo({RecordA}, MaxBadMatches))
    /\ blocks = <<>>
    /\ hash_groups = <<>>
    /\ groups = <<>>
    /\ suggestions = <<>>
    /\ metrics = NoMetrics
    /\ result = <<>>
    /\ stdout = <<>>
    /\ stderr = <<>>
    /\ exit_code = <<>>

\* An exception reaches main's except clause; `stage` is where the
\* traceback points.
Raise(stage) ==
    /\ pc' = "raised"
    /\ stderr' = Append(stderr, <<"raised", stage>>)

\* json.load and the two key lookups, lines 169-172
Load ==
    /\ pc = "start"
    /\ IF input.validJson /\ input.hasRepositoryInfo /\ input.hasPatternMatches
       THEN pc' = "loaded" /\ stderr' = stderr
       ELSE Raise("load")
    /\ UNCHANGED <<input, env, blocks, hash_groups, groups, suggestions,
                   metrics, result, stdout, exit_code>>

\* Stage 3, line 175
Extract ==
    /\ pc = "loaded"
    /\ LET r == extract_code_blocks(input.pattern_matches, input.repository_info) IN
       IF r.raised
       THEN /\ pc' = "raised"
            /\ stderr' = Append(r.stderr, <<"raised", "extract">>)
            /\ blocks' = blocks
       ELSE /\ pc' = "extracted"
            /\ stderr' = r.stderr
            /\ blocks' = r.blocks
    /\ UNCHANGED <<input, env, hash_groups, groups, suggestions, metrics,
                   result, stdout, exit_code>>

\* Stage 5, line 181
Group ==
    /\ pc = "extracted"
    /\ pc' = "grouped"
    /\ hash_groups' = Bucketize(blocks, 1, <<>>)
    /\ groups' = group_duplicates(blocks)
    /\ UNCHANGED <<input, env, blocks, suggestions, metrics, result, stdout,
                   stderr, exit_code>>

\* Stage 6, line 184
Suggest ==
    /\ pc = "grouped"
    /\ pc' = "suggested"
    /\ suggestions' = generate_suggestions(groups)
    /\ UNCHANGED <<input, env, blocks, hash_groups, groups, metrics, result,
                   stdout, stderr, exit_code>>

\* Stage 7, lines 187-199
Measure ==
    /\ pc = "suggested"
    /\ pc' = "measured"
    /\ metrics' = ComputeMetrics(blocks, groups, suggestions)
    /\ UNCHANGED <<input, env, blocks, hash_groups, groups, suggestions,
                   result, stdout, stderr, exit_code>>

\* Lines 202-207: the document is built in memory (model_dump of every
\* record); a value that cannot be serialized raises here.
Serialize ==
    /\ pc = "measured"
    /\ IF env.serializable
       THEN /\ pc' = "serialized"
            /\ stderr' = stderr
            /\ result' = <<[code_blocks |-> blocks, duplicate_groups |-> groups,
                            suggestions |-> suggestions, metrics |-> metrics]>>
       ELSE Raise("serialize") /\ result' = result
    /\ UNCHANGED <<input, env, blocks, hash_groups, groups, suggestions,
                   metrics, stdout, exit_code>>

\* json.dump(result, sys.stdout), line 209; main returns: exit status 0.
Write ==
    /\ pc = "serialized"
    /\ pc' = "done"
    /\ stdout' = result
    /\ exit_code' = <<0>>
    /\ UNCHANGED <<input, env, blocks, hash_groups, groups, suggestions,
                   metrics, result, stderr>>

\* except Exception, lines 211-215: diagnostic, traceback, sys.exit(1)
HandleError ==
    /\ pc = "raised"
    /\ pc' = "exited"
    /\ stderr' = Append(stderr, <<"Error in extraction pipeline">>)
    /\ exit_code' = <<1>>
    /\ UNCHANGED <<input, env, blocks, hash_groups, groups, suggestions,
                   metrics, result, stdout>>

Next ==
    \/ Load
    \/ Extract
    \/ Group
    \/ Suggest
    \/ Measure
    \/ Serialize
    \/ Write
    \/ HandleError

Spec == Init /\ [][Next]_vars

(***************************************************************************)
(* Vocabulary of the properties.                                           *)
(***************************************************************************)
Matches == input.pattern_matches

LoadOk == input.validJson /\ input.hasRepositoryInfo /\ input.hasPatternMatches

\* extract_code_blocks has been called and has returned or raised.
ExtractRan == LoadOk /\ pc \notin {"start", "loaded"}

ExtractFailed == <<"raised", "extract">> \in Range(stderr)

BlocksReturned == ExtractRan /\ ~ExtractFailed

GroupsComputed == pc \in {"grouped", "suggested", "measured", "serialized", "done"}

SuggestionsComputed == pc \in {"suggested", "measured", "serialized", "done"}

MetricsComputed == pc \in {"measured", "serialized", "done"}

Terminated == pc \in {"done", "exited"}

HasRequired(m) == m.isDict /\ RequiredKeys \subseteq m.keys

WellTyped(m) == m.isDict /\ m.ill \cap m.keys = {}

ValidRange(m) == LineEnd(m) >= m.line_start

\* The k-th block carries the k-th record's file_path, line_start, rule_id.
Carries(b, m) ==
    /\ b.file_path = m.file_path
    /\ b.line_start = m.line_start
    /\ b.pattern_id = m.rule_id

BlocksMirror(ms) ==
    /\ Len(blocks) = Len(ms)
    /\ \A k \in 1..Len(ms) : Carries(blocks[k], ms[k])

HashesOfBlocks == {content_hash(blocks[k]) : k \in 1..Len(blocks)}

PositionsWith(h) == {k \in 1..Len(blocks) : content_hash(blocks[k]) = h}

SameHash(h, b) == content_hash(b) = h

IdsWith(h) ==
    LET bs == SelectSeq(blocks, LAMBDA b : SameHash(h, b)) IN
    [k \in 1..Len(bs) |-> bs[k].block_id]

GroupsOf(h) == {k \in 1..Len(groups) : groups[k].group_id = <<"dg", h>>}

\* Blocks i and j (positions in `blocks`) are members of one emitted group.
InSameGroup(i, j) ==
    \E b \in 1..Len(hash_groups) :
        /\ {i, j} \subseteq Range(hash_groups[b].members)
        /\ \E k \in 1..Len(groups) : groups[k].group_id = <<"dg", hash_groups[b].h>>

CompleteDocument ==
    <<[code_blocks |-> blocks, duplicate_groups |-> groups,
       suggestions |-> suggestions, metrics |-> metrics]>>

(***************************************************************************)
(* C1.  Original statement: whenever every record has rule_id, file_path   *)
(* and line_start present, extract_code_blocks returns exactly one block   *)
(* per record, in input order, and the batch never fails (repository_info  *)
(* being the descriptor the pipeline expects, with its path).              *)
(***************************************************************************)
C1_AllPresentOneBlockEach ==
    (/\ ExtractRan
     /\ input.repository_info.hasPath
     /\ \A k \in 1..Len(Matches) : HasRequired(Matches[k]))
        => (~ExtractFailed /\ BlocksMirror(Matches))

(***************************************************************************)
(* C1, amended.  Whenever repository_info has a path and every record is   *)
(* a dict with rule_id, file_path and line_start present, every value it   *)
(* carries of the expected type, and line_end (when present) not below     *)
(* line_start, extract_code_blocks returns exactly one block per record,   *)
(* in input order, and the batch does not fail.                            *)
(***************************************************************************)
C1_WellFormedOneBlockEach ==
    (/\ ExtractRan
     /\ input.repository_info.hasPath
     /\ \A k \in 1..Len(Matches) :
            HasRequired(Matches[k]) /\ WellTyped(Matches[k]) /\ ValidRange(Matches[k]))
        => (~ExtractFailed /\ BlocksMirror(Matches))

C1_Witness ==
    /\ pc = "extracted"
    /\ Len(Matches) >= 2
    /\ Matches[1].file_path # Matches[2].file_path
    /\ "line_end" \notin Matches[1].keys
    /\ BlocksMirror(Matches)

(***************************************************************************)
(* C2.  Malformed records (a required field missing, a record or a field   *)
(* of an unexpected type) are skipped one by one: whenever the top-level   *)
(* input has repository_info and pattern_matches the batch succeeds, and   *)
(* the blocks returned are those of the other records, in input order.     *)
(* (A record whose line range is inverted is counted with the malformed    *)
(* ones here, and the comparison of the blocks is made when                *)
(* repository_info has a path.)                                            *)
(***************************************************************************)
C2_Malformed(m) == ~HasRequired(m) \/ ~WellTyped(m) \/ ~ValidRange(m)

C2_WellFormed(m) == ~C2_Malformed(m)

C2_MalformedSkippedOnly ==
    ExtractRan =>
        /\ ~ExtractFailed
        /\ input.repository_info.hasPath =>
               BlocksMirror(SelectSeq(Matches, C2_WellFormed))

(***************************************************************************)
(* C3.  group_duplicates emits exactly one group for each content_hash     *)
(* bucket of 2 or more blocks and none for a bucket of one; every group    *)
(* has occurrence_count = |member_block_ids| >= 2, and member_block_ids    *)
(* lists the bucket's block ids in input order.                            *)
(***************************************************************************)
C3_OneGroupPerDuplicateBucket ==
    GroupsComputed =>
        /\ \A h \in HashesOfBlocks :
               Cardinality(GroupsOf(h)) =
                   IF Cardinality(PositionsWith(h)) >= 2 THEN 1 ELSE 0
        /\ \A k \in 1..Len(groups) :
               /\ \E h \in HashesOfBlocks :
                      /\ groups[k].group_id = <<"dg", h>>
                      /\ groups[k].member_block_ids = IdsWith(h)
               /\ groups[k].occurrence_count = Len(groups[k].member_block_ids)
               /\ groups[k].occurrence_count >= 2

C3_Witness ==
    /\ pc = "grouped"
    /\ Len(groups) >= 1
    /\ groups[1].member_block_ids[1] # groups[1].member_block_ids[2]
    /\ \E h \in HashesOfBlocks : Cardinality(PositionsWith(h)) = 1

C5_StrategyThresholds ==
    SuggestionsComputed =>
        /\ \A k \in 1..Len(suggestions) :
               LET n == groups[k].occurrence_count IN
               /\ n \in 2..3 => suggestions[k].strategy = "local_util"
               /\ n \in 4..10 => suggestions[k].strategy = "shared_package"
               /\ n > 10 => suggestions[k].strategy = "mcp_server"
        /\ \A k, l \in 1..Len(suggestions) :
               \/ {groups[k].occurrence_count, groups[l].occurrence_count}
                      \notin {{3, 4}, {10, 11}}
               \/ suggestions[k].strategy # suggestions[l].strategy

C5_Witness ==
    /\ pc = "suggested"
    /\ Len(suggestions) = 2
    /\ groups[1].occurrence_count = 10
    /\ groups[2].occurrence_count = 11
    /\ suggestions[1].strategy = "shared_package"
    /\ suggestions[2].strategy = "mcp_server"

(***************************************************************************)
(* C6.  For every emitted group, its share of potential_loc_reduction,     *)
(* total_lines - total_lines // occurrence_count, is at least 0 and at     *)
(* most total_lines, also when the input holds matches whose line_end is   *)
(* below line_start; the metric is the sum of the shares.                  *)
(***************************************************************************)
C6_Share(g) == g.total_lines - g.total_lines \div g.occurrence_count

C8_IsExactMatch(g) == g.similarity_method = "exact_match"

C8_ExactDuplicatesCountsGroups ==
    MetricsComputed =>
        /\ metrics.exact_duplicates = Len(SelectSeq(groups, C8_IsExactMatch))
        /\ metrics.exact_duplicates = metrics.total_duplicate_groups

(***************************************************************************)
(* C9.  Output is written only after the four stages have completed, and   *)
(* then it is the complete document; a run that ends with exit code 1 has  *)
(* written nothing; and a run whose input is valid JSON with               *)
(* repository_info and pattern_matches and whose document serializes       *)
(* (only individual records can be at fault) ends with exit code 0 and     *)
(* the complete document.                                                  *)
(***************************************************************************)
C9_OutputOnlyAfterPipeline ==
    /\ stdout # <<>> => (pc = "done" /\ stdout = CompleteDocument)
    /\ exit_code = <<1>> => stdout = <<>>
    /\ (Terminated /\ LoadOk /\ env.serializable) =>
           (exit_code = <<0>> /\ stdout = CompleteDocument)

(***************************************************************************)
(* C10.  There is exactly one suggestion per group, matched through        *)
(* duplicate_group_id (group ids are pairwise distinct, suggestion_id is   *)
(* cs_ + group_id), and its affected_files_count is the number of          *)
(* distinct file paths among the group's member blocks.                    *)
(***************************************************************************)
C10_OneSuggestionPerGroup ==
    SuggestionsComputed =>
        /\ Len(suggestions) = Len(groups)
        /\ \A k, l \in 1..Len(groups) :
               groups[k].group_id = groups[l].group_id => k = l
        /\ \A k \in 1..Len(groups) :
               /\ suggestions[k].duplicate_group_id = groups[k].group_id
               /\ suggestions[k].suggestion_id = <<"cs", groups[k].group_id>>
               /\ \E h \in HashesOfBlocks :
                      /\ groups[k].group_id = <<"dg", h>>
                      /\ suggestions[k].affected_files_count =
                             Cardinality({blocks[i].file_path : i \in PositionsWith(h)})

C10_Witness ==
    /\ pc = "suggested"
    /\ Len(suggestions) = 2
    /\ suggestions[1].affected_files_count = 1
    /\ groups[1].occurrence_count = 2
    /\ suggestions[2].affected_files_count = 2

=============================================================================
